---- MODULE Spec2Model ----
(***************************************************************************)
(* Model of the test automation platform of src/demo.py: the TestBundle    *)
(* contract (validate_config, execute_bundle, get_bundle_info), the three  *)
(* shipped bundles, BundleRegistry, TestRunner.run_bundle and              *)
(* TestRunner._calculate_statistics.                                       *)
(*                                                                         *)
(* Texts that the code takes apart (bundle names, which register_bundle    *)
(* lower-cases and in which it replaces spaces) are sequences of           *)
(* one-character strings; all other texts are strings.  A Python dict is   *)
(* a sequence of entries in insertion order (BundleRegistry._bundles, the  *)
(* config schema) or a total function onto values with a Missing marker    *)
(* (the caller's config).  TestResult.timestamp, the wall clock reading    *)
(* taken when a result is created, is not modelled.                        *)
(***************************************************************************)
EXTENDS Integers, Sequences, FiniteSets, TLC

(***************************************************************************)
(* Bounds of the model.                                                    *)
(***************************************************************************)
\* Number of test cases kept of each bundle's case list.
MaxCases == 2
\* Number of register_bundle calls a host makes after construction.
MaxRegister == 2
\* Seconds a caller is observed waiting on an executor that never returns.
MaxWait == 2

\* The callers of run_bundle (coroutines that may be inside run_bundle).
Runs == {1, 2}

None == "<None>"

(***************************************************************************)
(* TestStatus (src/demo.py 29-35): the enum values.                        *)
(***************************************************************************)
PENDING == "pending"
RUNNING == "running"
PASSED == "passed"
FAILED == "failed"
SKIPPED == "skipped"
TestStatus == {PENDING, RUNNING, PASSED, FAILED, SKIPPED}

\* TestResult(...) (src/demo.py 38-48); url and error_message default to None.
TestResult(name, description, status, duration_ms, details, url, error_message) ==
    [name |-> name, description |-> description, status |-> status,
     duration_ms |-> duration_ms, details |-> details, url |-> url,
     error_message |-> error_message]

\* TestResult.to_dict (src/demo.py 50-61): the status becomes its value.
to_dict(r) ==
    [name |-> r.name, description |-> r.description, status |-> r.status,
     duration_ms |-> r.duration_ms, details |-> r.details, url |-> r.url,
     error_message |-> r.error_message]

\* ConfigField (src/demo.py 64-72), with the key it is stored under.
ConfigField(field_name, field_type, label, required, default) ==
    [field_name |-> field_name, field_type |-> field_type, label |-> label,
     required |-> required, default |-> default]

\* TestCase (src/demo.py 75-83).
TestCase(name, description, test_function, success_message, failure_message, timeout_seconds) ==
    [name |-> name, description |-> description, test_function |-> test_function,
     success_message |-> success_message, failure_message |-> failure_message,
     timeout_seconds |-> timeout_seconds]

\* The default of TestCase.timeout_seconds.
DefaultTimeout == 30

(***************************************************************************)
(* Python values held by a config dict, with their truth value and str().  *)
(***************************************************************************)
PyStr(s) == [type |-> "str", val |-> s]
PyInt(s) == [type |-> "int", val |-> s]
PyBool(s) == [type |-> "bool", val |-> s]
PyNone == [type |-> "NoneType", val |-> "None"]
\* A key the dict does not hold.
Missing == [type |-> "missing", val |-> ""]

\* A test `v is not None` in place of bool(v).
Truthy_is_not_none(v) == v.type \notin {"NoneType", "missing"}

\* bool(v): the empty string, 0, False and None are falsy.
Truthy(v) ==
    CASE v.type = "str" -> v.val # ""
      [] v.type = "int" -> v.val # "0"
      [] v.type = "bool" -> v.val # "False"
      [] OTHER -> FALSE

\* dict.get(key, default): the stored value, also when it is None.
dict_get(config, key, default) ==
    IF key \in DOMAIN config /\ config[key] # Missing THEN config[key] ELSE default

(***************************************************************************)
(* str.lower() and str.replace(' ', '_') on a sequence of characters.      *)
(***************************************************************************)
ToLower ==
    "A" :> "a" @@ "B" :> "b" @@ "C" :> "c" @@ "D" :> "d" @@ "E" :> "e" @@
    "F" :> "f" @@ "G" :> "g" @@ "H" :> "h" @@ "I" :> "i" @@ "J" :> "j" @@
    "K" :> "k" @@ "L" :> "l" @@ "M" :> "m" @@ "N" :> "n" @@ "O" :> "o" @@
    "P" :> "p" @@ "Q" :> "q" @@ "R" :> "r" @@ "S" :> "s" @@ "T" :> "t" @@
    "U" :> "u" @@ "V" :> "v" @@ "W" :> "w" @@ "X" :> "x" @@ "Y" :> "y" @@
    "Z" :> "z"

str_lower(s) == [i \in DOMAIN s |-> IF s[i] \in DOMAIN ToLower THEN ToLower[s[i]] ELSE s[i]]

str_replace(s, old, new) == [i \in DOMAIN s |-> IF s[i] = old THEN new ELSE s[i]]

\* The id register_bundle derives from a bundle's name (src/demo.py 502).
bundle_id_of(name) == str_replace(str_lower(name), " ", "_")

(***************************************************************************)
(* The bundles.  A bundle object is its class and its attributes           *)
(* (TestBundle.__init__, src/demo.py 99-104, as overridden by the class).  *)
(***************************************************************************)
Bundle(cls, name, description, category, icon) ==
    [cls |-> cls, name |-> name, description |-> description,
     category |-> category, icon |-> icon, version |-> "1.0.0"]

\* What Optional[TestBundle] holds when there is no bundle.
NoBundle == [cls |-> None]

\* EcommerceBundle() (src/demo.py 176-181).
EcommerceBundle ==
    Bundle("EcommerceBundle",
           <<"E", "-", "c", "o", "m", "m", "e", "r", "c", "e", " ", "C", "h", "e",
             "c", "k", "o", "u", "t", " ", "F", "l", "o", "w">>,
           "Complete checkout process testing including cart, payment, and confirmation",
           "ecommerce", "shopping-cart")

\* FormValidationBundle() (src/demo.py 286-291).
FormValidationBundle ==
    Bundle("FormValidationBundle",
           <<"F", "o", "r", "m", " ", "V", "a", "l", "i", "d", "a", "t", "i", "o",
             "n", " ", "S", "u", "i", "t", "e">>,
           "Comprehensive form field validation testing for web applications",
           "forms", "clipboard-list")

\* APIHealthBundle() (src/demo.py 382-387).
APIHealthBundle ==
    Bundle("APIHealthBundle",
           <<"A", "P", "I", " ", "H", "e", "a", "l", "t", "h", " ", "C", "h", "e",
             "c", "k", "s">>,
           "Monitor API endpoint availability, response times, and status codes",
           "api", "activity")

\* A bundle a host plugs in: a TestBundle subclass whose execute_test is the
\* host's own and may return any TestResult for its case, raise, or never
\* return (the abstract contract, src/demo.py 86-119).
PluginBundle(name) ==
    Bundle("PluginBundle", name, "Checks supplied by the host", "general", "test")

\* A host's bundle that declares no field and no test case.
EmptyBundle(name) ==
    Bundle("EmptyBundle", name, "Base test bundle description", "general", "test")

\* get_config_schema (src/demo.py 183-204, 293-308, 389-410): the fields in
\* insertion order.
get_config_schema(bundle) ==
    CASE bundle.cls = "EcommerceBundle" ->
           << ConfigField("base_url", "url", "Website URL", TRUE, PyStr("https://example-shop.com")),
              ConfigField("test_user_email", "text", "Test User Email", FALSE, PyStr("test@example.com")),
              ConfigField("test_product_id", "text", "Test Product ID", FALSE, PyStr("PROD-123")) >>
      [] bundle.cls = "FormValidationBundle" ->
           << ConfigField("base_url", "url", "Website URL", TRUE, PyStr("https://example.com")),
              ConfigField("form_path", "text", "Form Path", FALSE, PyStr("/contact")) >>
      [] bundle.cls = "APIHealthBundle" ->
           << ConfigField("base_url", "url", "API Base URL", TRUE, PyStr("https://api.example.com")),
              ConfigField("api_key", "password", "API Key", FALSE, PyStr("")),
              ConfigField("timeout_seconds", "number", "Timeout (seconds)", FALSE, PyStr("5")) >>
      [] bundle.cls = "PluginBundle" ->
           << ConfigField("note", "text", "Note", FALSE, PyNone),
              ConfigField("username", "text", "User Name", TRUE, PyNone),
              ConfigField("retries", "number", "Retries", TRUE, PyNone) >>
      [] OTHER -> << >>

\* EcommerceBundle.get_test_cases (src/demo.py 206-257).
EcommerceBundleCases ==
    <<
      TestCase("Homepage Load",
               "Verify homepage loads correctly with all critical elements",
               "test_homepage",
               "Homepage loaded successfully with navigation, search, and featured products visible",
               "Homepage failed to load within timeout or critical elements missing",
               DefaultTimeout),
      TestCase("Product Search",
               "Search functionality returns relevant results",
               "test_search",
               "Search executed successfully and returned relevant product results",
               "Search functionality not responding or returned no results",
               DefaultTimeout),
      TestCase("Add to Cart",
               "Product can be added to shopping cart",
               "test_add_to_cart",
               "Product added to cart successfully with correct quantity and price",
               "Add to cart button not functioning or cart not updating",
               DefaultTimeout),
      TestCase("Cart View",
               "Shopping cart displays items correctly with accurate totals",
               "test_cart_view",
               "Cart displays correct items, quantities, and calculates totals accurately",
               "Cart totals incorrect, items missing, or display errors",
               DefaultTimeout),
      TestCase("Checkout Process",
               "Checkout flow accepts valid customer information",
               "test_checkout",
               "Checkout form accepts and validates customer information correctly",
               "Checkout form validation errors or form not submitting",
               DefaultTimeout),
      TestCase("Payment Integration",
               "Payment gateway integration is functional",
               "test_payment",
               "Payment gateway responds correctly and processes test transaction",
               "Payment gateway connection failed or timeout",
               DefaultTimeout),
      TestCase("Order Confirmation",
               "Order confirmation page displays with valid order details",
               "test_confirmation",
               "Order confirmation displayed with valid order ID and customer details",
               "Order confirmation page not displayed or missing order information",
               DefaultTimeout)
    >>

\* FormValidationBundle.get_test_cases (src/demo.py 310-354).
FormValidationBundleCases ==
    <<
      TestCase("Email Validation",
               "Email field accepts valid formats and rejects invalid ones",
               "test_email_validation",
               "Email validation working correctly - accepts valid formats, rejects invalid",
               "Email validation not functioning properly",
               DefaultTimeout),
      TestCase("Phone Number Validation",
               "Phone field validates international formats correctly",
               "test_phone_validation",
               "Phone validation accepts valid international formats",
               "Phone validation issues detected with format checking",
               DefaultTimeout),
      TestCase("Required Fields",
               "Required field validation prevents empty submission",
               "test_required_fields",
               "Required field validation working - prevents empty submission",
               "Required fields can be bypassed or validation missing",
               DefaultTimeout),
      TestCase("Password Strength",
               "Password requirements enforced (length, complexity)",
               "test_password_strength",
               "Password strength requirements properly enforced",
               "Weak passwords accepted or requirements not enforced",
               DefaultTimeout),
      TestCase("Date Picker Validation",
               "Date fields accept valid dates only",
               "test_date_validation",
               "Date validation working correctly with proper format checking",
               "Invalid dates accepted or date picker malfunction",
               DefaultTimeout),
      TestCase("Form Submission",
               "Form submits successfully with valid data",
               "test_form_submission",
               "Form submitted successfully with confirmation message",
               "Form submission failed or no confirmation received",
               DefaultTimeout)
    >>

\* APIHealthBundle.get_test_cases (src/demo.py 412-456).
APIHealthBundleCases ==
    <<
      TestCase("API Availability",
               "Check if API endpoint is accessible and responding",
               "test_availability",
               "API is accessible and responding to requests",
               "API endpoint not reachable or connection timeout",
               DefaultTimeout),
      TestCase("Response Time Check",
               "Verify API responds within acceptable timeframe",
               "test_response_time",
               "Response time within acceptable threshold",
               "Response time exceeds configured threshold",
               DefaultTimeout),
      TestCase("Authentication Test",
               "API authentication mechanism working correctly",
               "test_authentication",
               "Authentication successful with valid credentials",
               "Authentication failed or invalid response",
               DefaultTimeout),
      TestCase("Data Endpoint Validation",
               "Data retrieval endpoints returning valid JSON responses",
               "test_data_endpoints",
               "Data endpoints returning valid, well-formed JSON",
               "Invalid response format or malformed JSON",
               DefaultTimeout),
      TestCase("Error Handling Check",
               "API returns proper error codes for invalid requests",
               "test_error_handling",
               "Error handling working correctly with proper status codes",
               "Improper error responses or missing error handling",
               DefaultTimeout),
      TestCase("Rate Limiting Test",
               "API rate limiting functions as expected",
               "test_rate_limiting",
               "Rate limiting working correctly with proper 429 responses",
               "Rate limiting not functioning or misconfigured",
               DefaultTimeout)
    >>

\* The test cases of the host's bundle, named as in a sample suite; each
\* declares a timeout of one second.
PluginLetters == <<"A", "B", "C", "D", "E", "F">>

PluginCase(i) ==
    TestCase("Check " \o PluginLetters[i], "Host check " \o PluginLetters[i],
             "check_" \o PluginLetters[i], "Check " \o PluginLetters[i] \o " succeeded",
             "Check " \o PluginLetters[i] \o " did not succeed", 1)

Min(a, b) == IF a < b THEN a ELSE b

\* The first n entries of a list.
Take(s, n) == SubSeq(s, 1, Min(n, Len(s)))

\* get_test_cases (src/demo.py 206-257, 310-354, 412-456), cut to the first
\* MaxCases cases of the list.
get_test_cases(bundle) ==
    CASE bundle.cls = "EcommerceBundle" -> Take(EcommerceBundleCases, MaxCases)
      [] bundle.cls = "FormValidationBundle" -> Take(FormValidationBundleCases, MaxCases)
      [] bundle.cls = "APIHealthBundle" -> Take(APIHealthBundleCases, MaxCases)
      [] bundle.cls = "PluginBundle" -> [i \in 1..MaxCases |-> PluginCase(i)]
      [] OTHER -> << >>

\* get_bundle_info (src/demo.py 157-166).
get_bundle_info(bundle) ==
    [name |-> bundle.name, description |-> bundle.description,
     category |-> bundle.category, icon |-> bundle.icon,
     version |-> bundle.version, test_count |-> Len(get_test_cases(bundle))]

(***************************************************************************)
(* execute_test: what one invocation can do.                               *)
(***************************************************************************)
\* Durations an executor measures, in milliseconds.
Durations == {0, 250}

\* The url a shipped bundle builds from the config (src/demo.py 271-279,
\* 366-375, 468-476).
result_url(bundle, test_case, config) ==
    CASE bundle.cls = "EcommerceBundle" ->
           dict_get(config, "base_url", PyStr("https://example-shop.com")).val
             \o "/" \o test_case.test_function
      [] bundle.cls = "FormValidationBundle" ->
           dict_get(config, "base_url", PyStr("https://example.com")).val
             \o dict_get(config, "form_path", PyStr("/contact")).val
      [] OTHER ->
           dict_get(config, "base_url", PyStr("https://api.example.com")).val
             \o "/v1/" \o test_case.test_function

\* The results execute_test can return for a case.  The shipped bundles
\* (src/demo.py 259-280, 356-376, 458-477) pass or fail at random and always
\* set a url; a host's executor returns a result for its case with any
\* status, with or without a url.
execute_test_returns(bundle, test_case, config) ==
    IF bundle.cls = "PluginBundle"
    THEN { TestResult(test_case.name, test_case.description, st, d,
                      IF st = PASSED THEN test_case.success_message
                                     ELSE test_case.failure_message,
                      u, None) :
             st \in TestStatus, d \in Durations, u \in {None, "https://host.example/check"} }
    ELSE { TestResult(test_case.name, test_case.description,
                      IF should_pass THEN PASSED ELSE FAILED, d,
                      IF should_pass THEN test_case.success_message
                                     ELSE test_case.failure_message,
                      result_url(bundle, test_case, config), None) :
             should_pass \in BOOLEAN, d \in Durations }

\* str(e) of the errors execute_test can raise: none in the shipped bundles;
\* a host's executor raises errors with a message and errors without one
\* (a failed assert, TimeoutError()).
execute_test_raises(bundle) ==
    IF bundle.cls = "PluginBundle" THEN {"connection refused", ""} ELSE {}

\* Whether an execute_test invocation can stay suspended forever.
execute_test_may_hang(bundle) == bundle.cls = "PluginBundle"

\* The result execute_bundle builds when execute_test raises
\* (src/demo.py 133-143).
error_result(test_case, e) ==
    TestResult(test_case.name, test_case.description, FAILED, 0,
               test_case.failure_message, None, e)

(***************************************************************************)
(* validate_config (src/demo.py 147-155).                                  *)
(***************************************************************************)
RECURSIVE validate_from(_, _, _)
validate_from(schema, config, k) ==
    IF k > Len(schema) THEN [ok |-> TRUE, msg |-> None]
    ELSE IF schema[k].required /\ ~Truthy(dict_get(config, schema[k].field_name, PyNone))
         THEN [ok |-> FALSE, msg |-> "Required field '" \o schema[k].label \o "' is missing"]
         ELSE validate_from(schema, config, k + 1)

\* A validation that tests `field_name not in config` instead of the value's
\* truth: a required field holding a falsy value is accepted.
RECURSIVE validate_presence_from(_, _, _)
validate_presence_from(schema, config, k) ==
    IF k > Len(schema) THEN [ok |-> TRUE, msg |-> None]
    ELSE IF schema[k].required /\ config[schema[k].field_name] = Missing
         THEN [ok |-> FALSE, msg |-> "Required field '" \o schema[k].label \o "' is missing"]
         ELSE validate_presence_from(schema, config, k + 1)

validate_config_presence_only(bundle, config) ==
    validate_presence_from(get_config_schema(bundle), config, 1)

validate_config(bundle, config) == validate_from(get_config_schema(bundle), config, 1)

(***************************************************************************)
(* BundleRegistry (src/demo.py 484-515).  _bundles is a dict: a sequence   *)
(* of [id, bundle] entries in insertion order; assigning to a key it holds *)
(* replaces the value where the key stands.                                *)
(***************************************************************************)
dict_keys(d) == [k \in DOMAIN d |-> d[k].id]

dict_has(d, id) == \E k \in DOMAIN d : d[k].id = id

\* A dict assignment that keeps the value a key already has (setdefault).
dict_set_keep_first(d, id, b) ==
    IF dict_has(d, id) THEN d ELSE Append(d, [id |-> id, bundle |-> b])

\* A dict assignment that moves a key it already holds to the end (the
\* entry is deleted and inserted again).
dict_set_move_to_end(d, id, b) ==
    Append(SelectSeq(d, LAMBDA entry : entry.id # id), [id |-> id, bundle |-> b])

dict_set(d, id, b) ==
    IF dict_has(d, id)
    THEN [k \in DOMAIN d |-> IF d[k].id = id THEN [id |-> id, bundle |-> b] ELSE d[k]]
    ELSE Append(d, [id |-> id, bundle |-> b])

\* register_bundle (src/demo.py 500-503).
register_bundle(d, bundle) == dict_set(d, bundle_id_of(bundle.name), bundle)

\* A lookup that falls back to the first registered bundle for an unknown id.
get_bundle_or_first(d, id) ==
    IF dict_has(d, id) THEN d[CHOOSE k \in DOMAIN d : d[k].id = id].bundle ELSE d[1].bundle

\* get_bundle (src/demo.py 505-507).
get_bundle(d, id) ==
    IF dict_has(d, id) THEN d[CHOOSE k \in DOMAIN d : d[k].id = id].bundle ELSE NoBundle

\* list_bundles (src/demo.py 509-511).
list_bundles(d) == [k \in DOMAIN d |-> get_bundle_info(d[k].bundle)]

\* get_bundle_ids (src/demo.py 513-515).
get_bundle_ids(d) == dict_keys(d)

\* _load_default_bundles (src/demo.py 494-498) on the empty dict of __init__.
load_default_bundles ==
    register_bundle(register_bundle(register_bundle(<< >>, EcommerceBundle),
                                    FormValidationBundle), APIHealthBundle)

(***************************************************************************)
(* TestRunner._calculate_statistics (src/demo.py 574-595).  pass_rate and  *)
(* execution_time_seconds are numbers with two decimals, held as their     *)
(* hundredths; execution_time is held in milliseconds.                     *)
(***************************************************************************)
RECURSIVE count_status(_, _)
count_status(results, status) ==
    IF results = << >> THEN 0
    ELSE (IF Head(results).status = status THEN 1 ELSE 0) + count_status(Tail(results), status)

RECURSIVE sum_duration(_)
sum_duration(results) ==
    IF results = << >> THEN 0 ELSE Head(results).duration_ms + sum_duration(Tail(results))

\* round(num / den, 0) as Python rounds: to the nearest integer, a tie to
\* the even one.
round_half_even(num, den) ==
    LET q == num \div den
        twice == 2 * (num % den)
    IN  IF twice < den THEN q
        ELSE IF twice > den THEN q + 1
        ELSE IF q % 2 = 0 THEN q ELSE q + 1

\* A pass rate cut to two decimals instead of rounded.
pass_rate_truncated(passed, total) ==
    IF total > 0 THEN (passed * 10000) \div total ELSE 0

\* round(passed / total * 100, 2) in hundredths; 0 when there is no result.
pass_rate_of(passed, total) ==
    IF total > 0 THEN round_half_even(passed * 10000, total) ELSE 0

\* Statistics that count skipped results as failed.
calculate_statistics_skipped_as_failed(results, execution_time) ==
    LET total == Len(results)
        passed == count_status(results, PASSED)
        failed == count_status(results, FAILED) + count_status(results, SKIPPED)
        skipped == count_status(results, SKIPPED)
    IN  [total_tests |-> total, passed |-> passed, failed |-> failed,
         skipped |-> skipped, pass_rate |-> pass_rate_of(passed, total),
         total_duration_ms |-> sum_duration(results),
         execution_time_seconds |-> round_half_even(execution_time, 10)]

calculate_statistics(results, execution_time) ==
    LET total == Len(results)
        passed == count_status(results, PASSED)
        failed == count_status(results, FAILED)
        skipped == count_status(results, SKIPPED)
    IN  [total_tests |-> total, passed |-> passed, failed |-> failed,
         skipped |-> skipped, pass_rate |-> pass_rate_of(passed, total),
         total_duration_ms |-> sum_duration(results),
         execution_time_seconds |-> round_half_even(execution_time, 10)]

(***************************************************************************)
(* The errors run_bundle raises (src/demo.py 551, 556): a ValueError whose *)
(* message is head, the bundle id (only in the first), tail.               *)
(***************************************************************************)
NoError == [type |-> None, head |-> "", id |-> << >>, tail |-> ""]

\* ValueError(f"Bundle '{bundle_id}' not found")
BundleNotFound(id) ==
    [type |-> "ValueError", head |-> "Bundle '", id |-> id, tail |-> "' not found"]

\* ValueError(f"Invalid configuration: {error_msg}")
InvalidConfiguration(error_msg) ==
    [type |-> "ValueError", head |-> "Invalid configuration: ", id |-> << >>, tail |-> error_msg]

\* What a caller holds while run_bundle has not returned.
NoOutcome == [returned |-> FALSE]

(***************************************************************************)
(* Inputs.                                                                 *)
(***************************************************************************)
SampleSuite == <<"S", "a", "m", "p", "l", "e", " ", "S", "u", "i", "t", "e">>
Smoke == <<"S", "m", "o", "k", "e">>
DoesNotExist == <<"d", "o", "e", "s", "_", "n", "o", "t", "_", "e", "x", "i", "s", "t">>

\* The bundles a host registers before it runs anything.
HostBundles == {PluginBundle(SampleSuite), EmptyBundle(Smoke)}

\* The ids callers pass to run_bundle: those of the shipped and the host's
\* bundles, an unknown one, and a bundle's name as written.
BundleIdInputs ==
    {bundle_id_of(b.name) : b \in HostBundles \cup {EcommerceBundle, FormValidationBundle, APIHealthBundle}}
      \cup {DoesNotExist, SampleSuite}

\* The config dicts callers pass.
Config(base_url, form_path, username, retries) ==
    [base_url |-> base_url, form_path |-> form_path, username |-> username,
     retries |-> retries]

ConfigInputs ==
    { Config(Missing, Missing, Missing, Missing),
      Config(PyStr(""), Missing, Missing, Missing),
      Config(PyStr("https://demo-shop.example.com"), Missing, Missing, Missing),
      Config(PyStr("https://demo-shop.example.com"), PyStr("/signup"), Missing, Missing),
      Config(Missing, Missing, PyStr("alice"), PyInt("3")),
      Config(Missing, Missing, PyStr("alice"), PyInt("0")) }

\* execution_time readings (src/demo.py 561), in milliseconds.
ExecutionTimes == {4, 1236}

(***************************************************************************)
(* State.                                                                  *)
(***************************************************************************)
VARIABLES
    bundles,     \* BundleRegistry._bundles
    nreg,        \* number of register_bundle calls made by the host
    reglog,      \* every bundle passed to register_bundle, in call order
    callers,     \* the callers that use the runner
    pc,          \* pc[r]: where caller r stands in run_bundle
    bundle_id,   \* run_bundle's argument bundle_id
    config,      \* run_bundle's argument config
    bundle,      \* run_bundle's local bundle
    validated,   \* validate_config was called in this run
    results,     \* execute_bundle's local results
    idx,         \* position of execute_bundle's for loop in test_cases
    calls,       \* the execute_test invocations of this run, in order: the position
                 \* of the case and how the invocation ended
    waited,      \* seconds waited on an execute_test that never returns
    outcome,     \* the dict run_bundle returned
    raised,      \* the error run_bundle raised
    stat_args,   \* the arguments of a direct _calculate_statistics call
    stat_ret,    \* what that call returned
    report_args, \* the argument of a direct ReportGenerator or validate_config call
    report_ret   \* what that call returned or raised

vars == <<bundles, nreg, reglog, callers, pc, bundle_id, config, bundle, validated,
          results, idx, calls, waited, outcome, raised, stat_args, stat_ret,
          report_args, report_ret>>

\* The variables of the direct calls of pure functions.
pure_vars == <<stat_args, stat_ret, report_args, report_ret>>

registry_vars == <<bundles, nreg, reglog>>

run_vars == <<pc, bundle_id, config, bundle, validated, results, idx, calls, waited,
              outcome, raised>>

\* BundleRegistry.__init__ (src/demo.py 490-492) and TestRunner.__init__
\* (src/demo.py 528-529): the shipped bundles are registered, no run_bundle
\* call is in progress.
InitState ==
    /\ bundles = load_default_bundles
    /\ nreg = 0
    /\ reglog = <<EcommerceBundle, FormValidationBundle, APIHealthBundle>>
    /\ pc = [r \in Runs |-> "idle"]
    /\ bundle_id = [r \in Runs |-> << >>]
    /\ config = [r \in Runs |-> Config(Missing, Missing, Missing, Missing)]
    /\ bundle = [r \in Runs |-> NoBundle]
    /\ validated = [r \in Runs |-> FALSE]
    /\ results = [r \in Runs |-> << >>]
    /\ idx = [r \in Runs |-> 1]
    /\ calls = [r \in Runs |-> << >>]
    /\ waited = [r \in Runs |-> 0]
    /\ outcome = [r \in Runs |-> NoOutcome]
    /\ raised = [r \in Runs |-> NoError]

\* No direct call of a pure function is made.
NoArgs == [given |-> FALSE]
NoRet == [computed |-> FALSE]
\* One caller awaits run_bundle at a time, as demo() does (src/demo.py 748).
Init ==
    /\ InitState
    /\ callers = {1}
    /\ stat_args = NoArgs /\ stat_ret = NoRet
    /\ report_args = NoArgs /\ report_ret = NoRet

(***************************************************************************)
(* Actions.                                                                *)
(***************************************************************************)
\* registry.register_bundle(b) by the host (src/demo.py 500-503).
Register(b) ==
    /\ nreg < MaxRegister
    /\ bundles' = register_bundle(bundles, b)
    /\ nreg' = nreg + 1
    /\ reglog' = Append(reglog, b)
    /\ UNCHANGED <<pure_vars, callers, run_vars>>

\* Caller r calls runner.run_bundle(id, cfg) (src/demo.py 531-536, 748).
Call(r, id, cfg) ==
    /\ r \in callers
    /\ pc[r] = "idle"
    /\ pc' = [pc EXCEPT ![r] = "resolve"]
    /\ bundle_id' = [bundle_id EXCEPT ![r] = id]
    /\ config' = [config EXCEPT ![r] = cfg]
    /\ UNCHANGED <<pure_vars, registry_vars, callers, bundle, validated, results, idx,
                   calls, waited, outcome, raised>>

\* Caller r is done with what run_bundle returned or raised; the frame of
\* the call is gone and the caller may call again.
Discard(r) ==
    /\ pc[r] \in {"returned", "raised"}
    /\ pc' = [pc EXCEPT ![r] = "idle"]
    /\ bundle_id' = [bundle_id EXCEPT ![r] = << >>]
    /\ config' = [config EXCEPT ![r] = Config(Missing, Missing, Missing, Missing)]
    /\ bundle' = [bundle EXCEPT ![r] = NoBundle]
    /\ validated' = [validated EXCEPT ![r] = FALSE]
    /\ results' = [results EXCEPT ![r] = << >>]
    /\ idx' = [idx EXCEPT ![r] = 1]
    /\ calls' = [calls EXCEPT ![r] = << >>]
    /\ waited' = [waited EXCEPT ![r] = 0]
    /\ outcome' = [outcome EXCEPT ![r] = NoOutcome]
    /\ raised' = [raised EXCEPT ![r] = NoError]
    /\ UNCHANGED <<pure_vars, registry_vars, callers>>

\* bundle = self.registry.get_bundle(bundle_id); raise if there is none
\* (src/demo.py 548-551).
Resolve(r) ==
    /\ pc[r] = "resolve"
    /\ LET b == get_bundle(bundles, bundle_id[r])
       IN  /\ bundle' = [bundle EXCEPT ![r] = b]
           /\ IF b = NoBundle
              THEN /\ raised' = [raised EXCEPT ![r] = BundleNotFound(bundle_id[r])]
                   /\ pc' = [pc EXCEPT ![r] = "raised"]
              ELSE /\ raised' = raised
                   /\ pc' = [pc EXCEPT ![r] = "validate"]
    /\ UNCHANGED <<pure_vars, registry_vars, callers, bundle_id, config, validated, results, idx,
                   calls, waited, outcome>>

\* is_valid, error_msg = bundle.validate_config(config); raise if invalid
\* (src/demo.py 553-556).
Validate(r) ==
    /\ pc[r] = "validate"
    /\ validated' = [validated EXCEPT ![r] = TRUE]
    /\ LET v == validate_config(bundle[r], config[r])
       IN  IF ~v.ok
           THEN /\ raised' = [raised EXCEPT ![r] = InvalidConfiguration(v.msg)]
                /\ pc' = [pc EXCEPT ![r] = "raised"]
           ELSE /\ raised' = raised
                /\ pc' = [pc EXCEPT ![r] = "execute"]
    /\ UNCHANGED <<pure_vars, registry_vars, callers, bundle_id, config, bundle, results, idx, calls,
                   waited, outcome>>

\* start_time = time.time(); bundle.execute_bundle(config) begins:
\* test_cases = self.get_test_cases(); results = [] (src/demo.py 559-560,
\* 126-127).
StartExecute(r) ==
    /\ pc[r] = "execute"
    /\ results' = [results EXCEPT ![r] = << >>]
    /\ idx' = [idx EXCEPT ![r] = 1]
    /\ pc' = [pc EXCEPT ![r] = "loop"]
    /\ UNCHANGED <<pure_vars, registry_vars, callers, bundle_id, config, bundle, validated, calls,
                   waited, outcome, raised>>

\* The for loop takes the next case and awaits self.execute_test(test_case,
\* config) (src/demo.py 129-131): the caller is suspended in the call.
Invoke(r) ==
    /\ pc[r] = "loop"
    /\ idx[r] <= Len(get_test_cases(bundle[r]))
    /\ calls' = [calls EXCEPT ![r] = Append(@, [case |-> idx[r], ended |-> "pending"])]
    /\ pc' = [pc EXCEPT ![r] = "await"]
    /\ UNCHANGED <<pure_vars, registry_vars, callers, bundle_id, config, bundle, validated, results,
                   idx, waited, outcome, raised>>

\* An execute_bundle that keeps its results in one list for all runs (that
\* of the first caller) instead of a local list.
results_after_return_shared(rs, res) == Append(results[1], res)

\* The list execute_bundle holds after the call for the case at the loop
\* position returned res (src/demo.py 131-132).
results_after_return(rs, res) == Append(rs, res)

\* The except clause without its append: the failed case leaves no result.
results_after_raise_dropped(rs, test_case, e) == rs

\* The list execute_bundle holds after the call for test_case raised e
\* (src/demo.py 133-143).
results_after_raise(rs, test_case, e) == Append(rs, error_result(test_case, e))

\* A loop that stays on the case it just handled.
next_case_same(i) == i

\* The loop position after the case at position i was handled, by a return
\* or by the except clause (src/demo.py 129).
next_case(i) == i + 1

\* execute_test returns a result; it is appended (src/demo.py 131-132).
ExecuteReturns(r) ==
    /\ pc[r] = "await"
    /\ \E res \in execute_test_returns(bundle[r], get_test_cases(bundle[r])[idx[r]], config[r]) :
          results' = [results EXCEPT ![r] = results_after_return(@, res)]
    /\ calls' = [calls EXCEPT ![r][Len(calls[r])].ended = "returned"]
    /\ idx' = [idx EXCEPT ![r] = next_case(@)]
    /\ pc' = [pc EXCEPT ![r] = "loop"]
    /\ UNCHANGED <<pure_vars, registry_vars, callers, bundle_id, config, bundle, validated,
                   waited, outcome, raised>>

\* The loop without its try/except: the executor's error leaves run_bundle.
ExecuteRaises_propagates(r) ==
    /\ pc[r] = "await"
    /\ \E e \in execute_test_raises(bundle[r]) :
          raised' = [raised EXCEPT ![r] =
                        [type |-> "Exception", head |-> e, id |-> << >>, tail |-> ""]]
    /\ calls' = [calls EXCEPT ![r][Len(calls[r])].ended = "raised"]
    /\ pc' = [pc EXCEPT ![r] = "raised"]
    /\ UNCHANGED <<pure_vars, registry_vars, callers, bundle_id, config, bundle, validated,
                   results, idx, waited, outcome>>

\* execute_test raises an Exception; the except clause appends a failed
\* result and the loop goes on (src/demo.py 133-143).
ExecuteRaises(r) ==
    /\ pc[r] = "await"
    /\ \E e \in execute_test_raises(bundle[r]) :
          results' = [results EXCEPT ![r] =
                         results_after_raise(@, get_test_cases(bundle[r])[idx[r]], e)]
    /\ calls' = [calls EXCEPT ![r][Len(calls[r])].ended = "raised"]
    /\ idx' = [idx EXCEPT ![r] = next_case(@)]
    /\ pc' = [pc EXCEPT ![r] = "loop"]
    /\ UNCHANGED <<pure_vars, registry_vars, callers, bundle_id, config, bundle, validated,
                   waited, outcome, raised>>

\* execute_test awaits something that never completes: the await of
\* src/demo.py 131 is not wrapped in any timeout, so the caller stays in it.
ExecuteHangs(r) ==
    /\ pc[r] = "await"
    /\ execute_test_may_hang(bundle[r])
    /\ pc' = [pc EXCEPT ![r] = "hung"]
    /\ UNCHANGED <<pure_vars, registry_vars, callers, bundle_id, config, bundle, validated, results,
                   idx, calls, waited, outcome, raised>>

\* A second passes while caller r is suspended in a call that never returns.
Tick(r) ==
    /\ pc[r] = "hung"
    /\ waited[r] < MaxWait
    /\ waited' = [waited EXCEPT ![r] = @ + 1]
    /\ UNCHANGED <<pure_vars, registry_vars, callers, pc, bundle_id, config, bundle, validated,
                   results, idx, calls, outcome, raised>>

\* A returned dict that holds an empty config instead of the caller's.
run_outcome_without_config(b, cfg, rs, execution_time) ==
    [returned |-> TRUE,
     bundle_info |-> get_bundle_info(b),
     config |-> Config(Missing, Missing, Missing, Missing),
     results |-> [k \in DOMAIN rs |-> to_dict(rs[k])],
     statistics |-> calculate_statistics(rs, execution_time),
     execution_time |-> execution_time]

\* The dict run_bundle returns (src/demo.py 564-572).
run_outcome(b, cfg, rs, execution_time) ==
    [returned |-> TRUE,
     bundle_info |-> get_bundle_info(b),
     config |-> cfg,
     results |-> [k \in DOMAIN rs |-> to_dict(rs[k])],
     statistics |-> calculate_statistics(rs, execution_time),
     execution_time |-> execution_time]

\* The loop is over: execute_bundle returns results, run_bundle measures
\* execution_time, computes the statistics and returns (src/demo.py 145,
\* 561-572).
Finish(r) ==
    /\ pc[r] = "loop"
    /\ idx[r] > Len(get_test_cases(bundle[r]))
    /\ \E execution_time \in ExecutionTimes :
          outcome' = [outcome EXCEPT ![r] =
                         run_outcome(bundle[r], config[r], results[r], execution_time)]
    /\ pc' = [pc EXCEPT ![r] = "returned"]
    /\ UNCHANGED <<pure_vars, registry_vars, callers, bundle_id, config, bundle, validated, results,
                   idx, calls, waited, raised>>

\* The steps run_bundle itself takes for caller r.
RunStep(r) ==
    \/ Resolve(r)
    \/ Validate(r)
    \/ StartExecute(r)
    \/ Invoke(r)
    \/ ExecuteReturns(r)
    \/ ExecuteRaises(r)
    \/ Finish(r)

Next ==
    \/ \E b \in HostBundles : Register(b)
    \/ \E r \in Runs, id \in BundleIdInputs, cfg \in ConfigInputs : Call(r, id, cfg)
    \/ \E r \in Runs : RunStep(r)
    \/ \E r \in Runs : Discard(r)
    \/ \E r \in Runs : ExecuteHangs(r)
    \/ \E r \in Runs : Tick(r)

Spec == Init /\ [][Next]_vars

(***************************************************************************)
(* Properties of run_bundle.                                               *)
(***************************************************************************)
\* The positions of run_bundle after execute_bundle was entered.
Executing == {"loop", "await", "hung"}

\* The test cases the bundle of caller r's run declares.
cases_of(r) == get_test_cases(bundle[r])

\* C1: a run either fails before any case executes or returns an outcome
\* with exactly one result per declared case, the i-th result carrying the
\* i-th case's name, whatever mix of returning and raising executors.
C1_OneResultPerCaseInOrder ==
    \A r \in Runs :
       /\ pc[r] = "raised" => calls[r] = << >> /\ results[r] = << >> /\ outcome[r] = NoOutcome
       /\ pc[r] = "returned" =>
            /\ Len(outcome[r].results) = Len(cases_of(r))
            /\ \A i \in 1..Len(cases_of(r)) : outcome[r].results[i].name = cases_of(r)[i].name

\* A run has returned for a bundle of MaxCases cases of which one raised
\* and another returned a passed result.
C1_Witness ==
    \E r \in Runs :
       /\ pc[r] = "returned"
       /\ Len(cases_of(r)) = MaxCases
       /\ \E i, j \in 1..Len(calls[r]) :
             /\ calls[r][i].ended = "raised"
             /\ calls[r][j].ended = "returned"
             /\ outcome[r].results[j].status = PASSED

\* C2 (as claimed): when execute_test raises for a case, the result at that
\* case's position is failed, has duration 0, the case's failure message as
\* details and a non-empty error message, and every later case is executed
\* and gets its own result.
C2_RaiseBecomesFailedResultWithErrorText ==
    \A r \in Runs :
       \A k \in 1..Len(calls[r]) :
          calls[r][k].ended = "raised" =>
             /\ k <= Len(results[r])
             /\ results[r][k].name = cases_of(r)[k].name
             /\ results[r][k].status = FAILED
             /\ results[r][k].duration_ms = 0
             /\ results[r][k].details = cases_of(r)[k].failure_message
             /\ results[r][k].error_message # None
             /\ results[r][k].error_message # ""
             /\ pc[r] = "returned" =>
                  /\ Len(calls[r]) = Len(cases_of(r))
                  /\ Len(outcome[r].results) = Len(cases_of(r))

\* Whether the registry holds a bundle under id.
IsKey(id) == \E k \in DOMAIN bundles : bundles[k].id = id

\* C3: run_bundle with an id that is no key of the registry raises the
\* bundle-not-found error naming that id; validate_config is not called, no
\* execute_test is invoked, there are no results and no outcome.  (The
\* registry never drops a key, so an id that is no key now was none when the
\* run looked it up.)
C3_UnknownIdFailsBeforeAnything ==
    \A r \in Runs :
       (pc[r] \notin {"idle", "resolve"} /\ ~IsKey(bundle_id[r])) =>
          /\ pc[r] = "raised"
          /\ raised[r].type = "ValueError"
          /\ raised[r].head = "Bundle '"
          /\ raised[r].id = bundle_id[r]
          /\ raised[r].tail = "' not found"
          /\ ~validated[r]
          /\ calls[r] = << >>
          /\ results[r] = << >>
          /\ outcome[r] = NoOutcome

\* A run for the id does_not_exist has raised.
C3_Witness ==
    \E r \in Runs :
       pc[r] = "raised" /\ bundle_id[r] = DoesNotExist /\ raised[r].head = "Bundle '"

\* The required fields of b's schema that cfg lacks or holds a falsy value
\* for.
Offending(b, cfg) ==
    {k \in DOMAIN get_config_schema(b) :
        /\ get_config_schema(b)[k].required
        /\ \/ cfg[get_config_schema(b)[k].field_name] = Missing
           \/ ~Truthy(cfg[get_config_schema(b)[k].field_name])}

\* C4: run_bundle with a resolvable id and a config lacking a required field
\* raises the invalid-configuration error carrying the label of an offending
\* field ('Website URL' when base_url is omitted for a shipped web bundle);
\* no execute_test is invoked, there are no results and no outcome.
C4_InvalidConfigFailsBeforeExecution ==
    \A r \in Runs :
       (pc[r] \notin {"idle", "resolve", "validate"} /\ bundle[r] # NoBundle
          /\ Offending(bundle[r], config[r]) # {}) =>
          /\ pc[r] = "raised"
          /\ raised[r].type = "ValueError"
          /\ raised[r].head = "Invalid configuration: "
          /\ \E k \in Offending(bundle[r], config[r]) :
                raised[r].tail =
                   "Required field '" \o get_config_schema(bundle[r])[k].label \o "' is missing"
          /\ (bundle[r].cls \in {"EcommerceBundle", "FormValidationBundle"}
                /\ config[r].base_url = Missing)
               => raised[r].tail = "Required field 'Website URL' is missing"
          /\ calls[r] = << >>
          /\ results[r] = << >>
          /\ outcome[r] = NoOutcome

\* The e-commerce bundle was run with a config that omits base_url and the
\* run has raised.
C4_Witness ==
    \E r \in Runs :
       /\ pc[r] = "raised"
       /\ bundle[r] = EcommerceBundle
       /\ config[r].base_url = Missing
       /\ raised[r].tail = "Required field 'Website URL' is missing"

\* The keys of a complete outcome.
OutcomeKeys == {"returned", "bundle_info", "config", "results", "statistics", "execution_time"}

\* The state part of C5: a run in execution or returned has raised nothing;
\* the only errors run_bundle raises are bundle-not-found and
\* invalid-configuration, raised before any case executes; what a run
\* returns is a complete outcome and no caller holds a partial one.
C5_State ==
    \A r \in Runs :
       /\ pc[r] \in Executing \cup {"returned"} => raised[r] = NoError
       /\ pc[r] = "raised" =>
            /\ raised[r].head \in {"Bundle '", "Invalid configuration: "}
            /\ calls[r] = << >>
       /\ pc[r] = "returned" =>
            /\ DOMAIN outcome[r] = OutcomeKeys
            /\ outcome[r].bundle_info = get_bundle_info(bundle[r])
            /\ outcome[r].config = config[r]
            /\ Len(outcome[r].results) = Len(cases_of(r))
            /\ outcome[r].statistics.total_tests = Len(cases_of(r))
       /\ pc[r] # "returned" => outcome[r] = NoOutcome

\* The step part of C5: a run in execution stays in execution or returns.
C5_Step ==
    \A r \in Runs :
       pc[r] \in Executing => pc'[r] \in Executing \cup {"returned"}

\* C5: in every state C5_State holds and every step is a C5_Step: a run
\* that has begun executing never fails, the only errors raised are the two
\* raised before any case executes, and only complete outcomes are returned.
C5_NoFailureOnceExecuting == []C5_State /\ [][C5_Step]_vars

\* A run has returned although one of its execute_test calls raised.
C5_Witness ==
    \E r \in Runs :
       /\ pc[r] = "returned"
       /\ \E k \in 1..Len(calls[r]) : calls[r][k].ended = "raised"

(***************************************************************************)
(* Properties of the statistics.                                           *)
(***************************************************************************)
\* The positions of rs whose status is one of sts.
WithStatus(rs, sts) == {i \in DOMAIN rs : rs[i].status \in sts}

\* C6 (as claimed): in the statistics of every returned outcome total is the
\* number of results and passed + failed + skipped is total, for results of
\* any of the five statuses.
C6_CountsAddUpForEveryStatus ==
    \A r \in Runs :
       pc[r] = "returned" =>
          LET st == outcome[r].statistics
          IN  /\ st.total_tests = Len(outcome[r].results)
              /\ st.passed + st.failed + st.skipped = st.total_tests

\* C6 (amended): total is the number of results for results of any status;
\* passed + failed + skipped is total less the number of results left
\* pending or running, hence total when every status is passed, failed or
\* skipped.
C6_CountsAddUpForFinalStatuses ==
    \A r \in Runs :
       pc[r] = "returned" =>
          LET st == outcome[r].statistics
              rs == outcome[r].results
          IN  /\ st.total_tests = Len(rs)
              /\ st.passed + st.failed + st.skipped
                   = st.total_tests - Cardinality(WithStatus(rs, {PENDING, RUNNING}))
              /\ WithStatus(rs, {PENDING, RUNNING}) = {}
                   => st.passed + st.failed + st.skipped = st.total_tests

\* A returned outcome of MaxCases results, one of them skipped, none
\* pending or running.
C6_Witness ==
    \E r \in Runs :
       /\ pc[r] = "returned"
       /\ Len(outcome[r].results) = MaxCases
       /\ WithStatus(outcome[r].results, {SKIPPED}) # {}
       /\ WithStatus(outcome[r].results, {PENDING, RUNNING}) = {}

\* Length of the result lists _calculate_statistics is called on directly.
MaxResults == 3

\* The results of those lists: any status, any duration.
StatResults ==
    { TestResult("Check A", "Host check A", st, d, "details", None, None) :
        st \in TestStatus, d \in Durations }

StatsInit ==
    /\ InitState
    /\ callers = {}
    /\ \E n \in 0..MaxResults : \E rs \in [1..n -> StatResults] :
       \E t \in ExecutionTimes :
          stat_args = [given |-> TRUE, results |-> rs, execution_time |-> t]
    /\ stat_ret = NoRet
    /\ report_args = NoArgs /\ report_ret = NoRet

\* runner._calculate_statistics(results, execution_time) (src/demo.py 574-595).
Summarize ==
    /\ stat_args # NoArgs
    /\ stat_ret = NoRet
    /\ stat_ret' = [computed |-> TRUE,
                    value |-> calculate_statistics(stat_args.results, stat_args.execution_time)]
    /\ UNCHANGED <<stat_args, report_args, report_ret, registry_vars, callers, run_vars>>

StatsNext == Summarize

StatsSpec == StatsInit /\ [][StatsNext]_vars

\* The sum of the durations of the first n results of rs.
RECURSIVE DurationOfFirst(_, _)
DurationOfFirst(rs, n) == IF n = 0 THEN 0 ELSE DurationOfFirst(rs, n - 1) + rs[n].duration_ms

\* C7: the statistics are a function of the result list: passed, failed and
\* skipped count the results of that status, total_duration_ms is the sum of
\* the durations, pass_rate is 0 for no result and otherwise the hundredth
\* nearest to passed / total * 100 (1 of 2 gives 50.0), within 0..100.
C7_StatisticsOfResultList ==
    stat_ret # NoRet =>
       LET rs == stat_args.results
           st == stat_ret.value
           diff == st.pass_rate * Len(rs) - st.passed * 10000
       IN  /\ st.total_tests = Len(rs)
           /\ st.passed = Cardinality(WithStatus(rs, {PASSED}))
           /\ st.failed = Cardinality(WithStatus(rs, {FAILED}))
           /\ st.skipped = Cardinality(WithStatus(rs, {SKIPPED}))
           /\ st.total_duration_ms = DurationOfFirst(rs, Len(rs))
           /\ Len(rs) = 0 => st.pass_rate = 0
           /\ Len(rs) > 0 => 2 * diff <= Len(rs) /\ -2 * diff <= Len(rs)
           /\ (Len(rs) = 2 /\ st.passed = 1) => st.pass_rate = 5000
           /\ st.pass_rate >= 0 /\ st.pass_rate <= 10000

\* The statistics of three results of which two passed were computed: the
\* pass rate 66.666... is rounded up to 66.67.
C7_Witness ==
    /\ stat_ret # NoRet
    /\ Len(stat_args.results) = 3
    /\ stat_ret.value.passed = 2
    /\ stat_ret.value.pass_rate = 6667
    /\ stat_ret.value.total_duration_ms > 0

(***************************************************************************)
(* Properties of the loop of execute_bundle.                               *)
(***************************************************************************)
\* C8 (as claimed): every execute_test invocation is bounded by its case's
\* timeout_seconds: no caller is still suspended in an invocation that never
\* returns once more seconds than the case's timeout have passed (by then
\* a failed result with the error message "timeout" is recorded and the
\* loop has gone on).
C8_InvocationBoundedByTimeout ==
    \A r \in Runs :
       pc[r] = "hung" => waited[r] <= cases_of(r)[idx[r]].timeout_seconds

\* C9: the execute_test invocations of a run are the bundle's cases in
\* definition order, each once, also after a failure; an invocation starts
\* only after the one before it returned or raised.
C9_EachCaseInvokedOnceInOrder ==
    \A r \in Runs :
       /\ Len(calls[r]) <= Len(cases_of(r)) \/ calls[r] = << >>
       /\ \A k \in 1..Len(calls[r]) :
             /\ calls[r][k].case = k
             /\ k < Len(calls[r]) => calls[r][k].ended \in {"returned", "raised"}
             /\ calls[r][k].ended = "pending" => pc[r] \in {"await", "hung"}
       /\ pc[r] = "returned" => Len(calls[r]) = Len(cases_of(r))

\* A run has returned after MaxCases invocations, the first of which raised.
C9_Witness ==
    \E r \in Runs :
       /\ pc[r] = "returned"
       /\ Len(calls[r]) = MaxCases
       /\ calls[r][1].ended = "raised"
       /\ calls[r][MaxCases].ended = "returned"

(***************************************************************************)
(* Properties of the registry.                                             *)
(***************************************************************************)
SampleSuiteLower == <<"s", "a", "m", "p", "l", "e", "_", "s", "u", "i", "t", "e">>
SampleSuiteUpper == <<"S", "A", "M", "P", "L", "E", " ", "S", "U", "I", "T", "E">>

\* The names of the bundles registered with the registry alone.
RegistryNames == {SampleSuite, SampleSuiteLower, SampleSuiteUpper, Smoke, APIHealthBundle.name}

RegistryBundles == {PluginBundle(n) : n \in RegistryNames} \cup {EmptyBundle(n) : n \in RegistryNames}

\* The ids looked up: the names as written, their ids, and an unknown id.
LookupIds ==
    LET names == RegistryNames \cup {EcommerceBundle.name, FormValidationBundle.name}
    IN  names \cup {bundle_id_of(n) : n \in names} \cup {DoesNotExist}

RegistryInit ==
    /\ InitState
    /\ callers = {}
    /\ stat_args = NoArgs /\ stat_ret = NoRet
    /\ report_args = NoArgs /\ report_ret = NoRet

RegistryNext == \E b \in RegistryBundles : Register(b)

RegistrySpec == RegistryInit /\ [][RegistryNext]_vars

\* id is name with every upper-case letter lower-cased and every space
\* replaced by an underscore.
NormalizesTo(name, id) ==
    /\ Len(name) = Len(id)
    /\ \A i \in 1..Len(name) :
          IF name[i] = " " THEN id[i] = "_"
          ELSE IF name[i] \in DOMAIN ToLower THEN id[i] = ToLower[name[i]]
          ELSE id[i] = name[i]

\* The register_bundle calls whose bundle's name normalizes to id.
RegisteredAs(id) == {k \in DOMAIN reglog : NormalizesTo(reglog[k].name, id)}

\* C10: after any sequence of register calls, get_bundle(id) is the bundle
\* most recently registered whose name normalizes to id and absent when no
\* registered name does; registering under a colliding name replaces the
\* entry, so there is one stored entry per id registered.
C10_LookupReturnsLatestRegistered ==
    /\ \A id \in LookupIds :
          get_bundle(bundles, id) =
             IF RegisteredAs(id) = {} THEN NoBundle
             ELSE reglog[CHOOSE k \in RegisteredAs(id) : \A j \in RegisteredAs(id) : j <= k]
    /\ Len(bundles) = Cardinality({id \in LookupIds : RegisteredAs(id) # {}})

\* Two different bundles whose names differ and normalize to one id were
\* registered; the lookup gives the later one and the registry holds fewer
\* entries than register calls were made.
C10_Witness ==
    \E j, k \in DOMAIN reglog :
       /\ j < k
       /\ k = Len(reglog)
       /\ reglog[j].name # reglog[k].name
       /\ reglog[j].cls # reglog[k].cls
       /\ bundle_id_of(reglog[j].name) = bundle_id_of(reglog[k].name)
       /\ get_bundle(bundles, bundle_id_of(reglog[k].name)) = reglog[k]
       /\ Len(bundles) < Len(reglog)

\* The members of a set of numbers in increasing order.
RECURSIVE Ascending(_)
Ascending(S) ==
    IF S = {} THEN << >>
    ELSE LET m == CHOOSE x \in S : \A y \in S : x <= y
         IN  <<m>> \o Ascending(S \ {m})

\* The register_bundle calls whose bundle is still stored: the last call for
\* each id.
LastCalls == {k \in DOMAIN reglog :
                \A j \in DOMAIN reglog :
                   bundle_id_of(reglog[j].name) = bundle_id_of(reglog[k].name) => j <= k}

\* The first register_bundle call for each id.
FirstCalls == {k \in DOMAIN reglog :
                 \A j \in DOMAIN reglog :
                    bundle_id_of(reglog[j].name) = bundle_id_of(reglog[k].name) => k <= j}

\* C11 (as claimed): get_bundle_ids and list_bundles hold one entry per
\* registered bundle in the order the bundles were registered, also when a
\* later register call reuses an id, and list_bundles()[k] is the info of
\* the bundle stored under get_bundle_ids()[k].
C11_ListsInRegistrationOrder ==
    LET order == Ascending(LastCalls)
    IN  /\ get_bundle_ids(bundles) = [k \in DOMAIN order |-> bundle_id_of(reglog[order[k]].name)]
        /\ list_bundles(bundles) = [k \in DOMAIN order |-> get_bundle_info(reglog[order[k]])]
        /\ \A k \in DOMAIN list_bundles(bundles) :
              list_bundles(bundles)[k]
                 = get_bundle_info(get_bundle(bundles, get_bundle_ids(bundles)[k]))

\* C11 (amended): get_bundle_ids and list_bundles hold one entry per id, in
\* the order in which the ids were first registered; list_bundles()[k] is
\* the info of the bundle stored under get_bundle_ids()[k], the one
\* registered last under that id.  When no id is reused this is one entry
\* per registered bundle in registration order.
C11_ListsInOrderOfFirstRegistration ==
    LET order == Ascending(FirstCalls)
    IN  /\ get_bundle_ids(bundles) = [k \in DOMAIN order |-> bundle_id_of(reglog[order[k]].name)]
        /\ Len(list_bundles(bundles)) = Len(order)
        /\ \A k \in DOMAIN order :
              /\ list_bundles(bundles)[k]
                    = get_bundle_info(get_bundle(bundles, get_bundle_ids(bundles)[k]))
              /\ \E j \in LastCalls :
                    /\ bundle_id_of(reglog[j].name) = bundle_id_of(reglog[order[k]].name)
                    /\ list_bundles(bundles)[k] = get_bundle_info(reglog[j])
        /\ FirstCalls = LastCalls =>
              /\ Len(order) = Len(reglog)
              /\ list_bundles(bundles) = [k \in DOMAIN reglog |-> get_bundle_info(reglog[k])]

\* The last register call reused an id that is not the last key of the
\* dict, for a bundle with another number of test cases.
C11_Witness ==
    \E i \in DOMAIN bundles :
       /\ i < Len(bundles)
       /\ Len(reglog) \notin FirstCalls
       /\ bundles[i].bundle = reglog[Len(reglog)]
       /\ list_bundles(bundles)[i].test_count = 0


(***************************************************************************)
(* ReportGenerator.generate_json_report (src/demo.py 605-608): json.dumps  *)
(* of the dict run_bundle returned.  The objects json handles are trees of *)
(* None, bool, int, float, str, list and dict; the text is the sequence of *)
(* JSON tokens (indentation is white space between tokens and is left      *)
(* out); numbers are written digit by digit.                               *)
(***************************************************************************)
ONone == [t |-> "NoneType"]
OBool(b) == [t |-> "bool", b |-> b]
OInt(n) == [t |-> "int", n |-> n]
OStr(s) == [t |-> "str", s |-> s]
OList(items) == [t |-> "list", items |-> items]
ODict(entries) == [t |-> "dict", entries |-> entries]
Entry(key, value) == [key |-> key, value |-> value]

\* The float with value m / 10^e, written with the fewest decimals (at least
\* one), as repr writes a float.
RECURSIVE OFloat(_, _)
OFloat(m, e) ==
    IF e > 1 /\ m % 10 = 0 THEN OFloat(m \div 10, e - 1)
    ELSE [t |-> "float", m |-> m, e |-> e]

\* A str held as its characters, as a str.
RECURSIVE text_of(_)
text_of(chars) == IF chars = << >> THEN "" ELSE Head(chars) \o text_of(Tail(chars))

\* A config value as the object it is.
config_value(v) ==
    CASE v.type = "str" -> OStr(v.val)
      [] v.type = "int" -> OInt(CHOOSE n \in 0..9 : ToString(n) = v.val)
      [] v.type = "bool" -> OBool(v.val = "True")
      [] OTHER -> ONone

\* An Optional[str] attribute as the object it is.
optional_str(s) == IF s = None THEN ONone ELSE OStr(s)

\* The keys a config dict holds, in the order the caller wrote them.
ConfigKeys == <<"base_url", "form_path", "username", "retries">>

config_object(cfg) ==
    LET present == SelectSeq(ConfigKeys, LAMBDA k : cfg[k] # Missing)
    IN  ODict([i \in DOMAIN present |-> Entry(present[i], config_value(cfg[present[i]]))])

\* get_bundle_info's dict (src/demo.py 157-166).
bundle_info_object(info) ==
    ODict(<< Entry("name", OStr(text_of(info.name))),
             Entry("description", OStr(info.description)),
             Entry("category", OStr(info.category)),
             Entry("icon", OStr(info.icon)),
             Entry("version", OStr(info.version)),
             Entry("test_count", OInt(info.test_count)) >>)

\* to_dict's dict (src/demo.py 50-61).
result_object(d) ==
    ODict(<< Entry("name", OStr(d.name)),
             Entry("description", OStr(d.description)),
             Entry("status", OStr(d.status)),
             Entry("duration_ms", OInt(d.duration_ms)),
             Entry("details", OStr(d.details)),
             Entry("url", optional_str(d.url)),
             Entry("error_message", optional_str(d.error_message)) >>)

\* _calculate_statistics' dict (src/demo.py 574-595): pass_rate is the int
\* 0 of the conditional's else branch when there is no result, a float
\* otherwise.
statistics_object(st) ==
    ODict(<< Entry("total_tests", OInt(st.total_tests)),
             Entry("passed", OInt(st.passed)),
             Entry("failed", OInt(st.failed)),
             Entry("skipped", OInt(st.skipped)),
             Entry("pass_rate", IF st.total_tests = 0 THEN OInt(0) ELSE OFloat(st.pass_rate, 2)),
             Entry("total_duration_ms", OInt(st.total_duration_ms)),
             Entry("execution_time_seconds", OFloat(st.execution_time_seconds, 2)) >>)

\* The dict run_bundle returns (src/demo.py 564-572), as json.dumps sees it.
outcome_object(o) ==
    ODict(<< Entry("bundle_info", bundle_info_object(o.bundle_info)),
             Entry("config", config_object(o.config)),
             Entry("results", OList([k \in DOMAIN o.results |-> result_object(o.results[k])])),
             Entry("statistics", statistics_object(o.statistics)),
             Entry("execution_time", OFloat(o.execution_time, 3)) >>)

\* d[key] of a dict object.
item(d, key) == d.entries[CHOOSE i \in DOMAIN d.entries : d.entries[i].key = key].value

\* JSON tokens.
Punct(c) == [k |-> "punct", c |-> c]
StrTok(s) == [k |-> "string", s |-> s]
NumTok(chars) == [k |-> "number", chars |-> chars]
LitTok(w) == [k |-> "literal", w |-> w]

Digits == <<"0", "1", "2", "3", "4", "5", "6", "7", "8", "9">>

\* The decimal digits of a natural number.
RECURSIVE int_repr(_)
int_repr(n) == IF n < 10 THEN <<Digits[n + 1]>> ELSE Append(int_repr(n \div 10), Digits[(n % 10) + 1])

RECURSIVE Pow10(_)
Pow10(e) == IF e = 0 THEN 1 ELSE 10 * Pow10(e - 1)

\* n written with exactly e digits.
RECURSIVE fixed_digits(_, _)
fixed_digits(n, e) == IF e = 0 THEN << >> ELSE Append(fixed_digits(n \div 10, e - 1), Digits[(n % 10) + 1])

\* float.__repr__ of a float of a few decimals.
float_repr(f) == int_repr(f.m \div Pow10(f.e)) \o <<".">> \o fixed_digits(f.m % Pow10(f.e), f.e)

\* None written as if by str().
encode_none_as_str == <<StrTok("None")>>

\* json writes None as null.
encode_none == <<LitTok("null")>>

\* json.dumps, token by token.
RECURSIVE json_dumps(_), encode_items(_, _), encode_entries(_, _)
json_dumps(o) ==
    CASE o.t = "NoneType" -> encode_none
      [] o.t = "bool" -> <<LitTok(IF o.b THEN "true" ELSE "false")>>
      [] o.t = "int" -> <<NumTok(int_repr(o.n))>>
      [] o.t = "float" -> <<NumTok(float_repr(o))>>
      [] o.t = "str" -> <<StrTok(o.s)>>
      [] o.t = "list" -> <<Punct("[")>> \o encode_items(o.items, 1) \o <<Punct("]")>>
      [] OTHER -> <<Punct("{")>> \o encode_entries(o.entries, 1) \o <<Punct("}")>>

encode_items(items, i) ==
    IF i > Len(items) THEN << >>
    ELSE (IF i > 1 THEN <<Punct(",")>> ELSE << >>) \o json_dumps(items[i]) \o encode_items(items, i + 1)

encode_entries(entries, i) ==
    IF i > Len(entries) THEN << >>
    ELSE (IF i > 1 THEN <<Punct(",")>> ELSE << >>)
           \o <<StrTok(entries[i].key), Punct(":")>> \o json_dumps(entries[i].value)
           \o encode_entries(entries, i + 1)

\* The number a digit sequence denotes.
RECURSIVE int_of(_)
int_of(chars) ==
    IF chars = << >> THEN 0
    ELSE 10 * int_of(SubSeq(chars, 1, Len(chars) - 1))
           + (CHOOSE d \in 0..9 : Digits[d + 1] = chars[Len(chars)])

\* The number a number token denotes: a float when it has a decimal point.
parse_number(chars) ==
    IF \E p \in DOMAIN chars : chars[p] = "."
    THEN LET p == CHOOSE q \in DOMAIN chars : chars[q] = "."
         IN  OFloat(int_of(SubSeq(chars, 1, p - 1) \o SubSeq(chars, p + 1, Len(chars))),
                    Len(chars) - p)
    ELSE OInt(int_of(chars))

\* json.loads: the value that starts at token i, and the position after it.
RECURSIVE parse_value(_, _), parse_items(_, _, _), parse_entries(_, _, _)
parse_value(toks, i) ==
    CASE toks[i].k = "literal" ->
           [v |-> IF toks[i].w = "null" THEN ONone ELSE OBool(toks[i].w = "true"), next |-> i + 1]
      [] toks[i].k = "number" -> [v |-> parse_number(toks[i].chars), next |-> i + 1]
      [] toks[i].k = "string" -> [v |-> OStr(toks[i].s), next |-> i + 1]
      [] toks[i] = Punct("[") -> parse_items(toks, i + 1, << >>)
      [] OTHER -> parse_entries(toks, i + 1, << >>)

parse_items(toks, i, acc) ==
    IF toks[i] = Punct("]") THEN [v |-> OList(acc), next |-> i + 1]
    ELSE IF toks[i] = Punct(",") THEN parse_items(toks, i + 1, acc)
    ELSE LET r == parse_value(toks, i) IN parse_items(toks, r.next, Append(acc, r.v))

parse_entries(toks, i, acc) ==
    IF toks[i] = Punct("}") THEN [v |-> ODict(acc), next |-> i + 1]
    ELSE IF toks[i] = Punct(",") THEN parse_entries(toks, i + 1, acc)
    ELSE LET r == parse_value(toks, i + 2)
         IN  parse_entries(toks, r.next, Append(acc, Entry(toks[i].s, r.v)))

json_loads(toks) == parse_value(toks, 1).v

\* ReportGenerator.generate_json_report (src/demo.py 605-608).
generate_json_report(test_results) == json_dumps(outcome_object(test_results))

(***************************************************************************)
(* ReportGenerator.generate_canvas_report (src/demo.py 674-718).  A str is *)
(* a string; str.center, str.ljust and textwrap.wrap are computed          *)
(* character by character.  The texts hold no tab and no line break, and   *)
(* wrap breaks lines at spaces only (textwrap also breaks a hyphenated     *)
(* word after its hyphen, which moves a break and lengthens no line).      *)
(***************************************************************************)
width == 70

\* c * n
RECURSIVE str_times(_, _)
str_times(c, n) == IF n <= 0 THEN "" ELSE c \o str_times(c, n - 1)

border == "+" \o str_times("-", width - 2) \o "+"

\* str.center(w): the text itself when it is w characters or longer.
str_center(text, w) ==
    IF Len(text) >= w THEN text
    ELSE LET marg == w - Len(text)
             left == (marg \div 2) + (IF marg % 2 = 1 /\ w % 2 = 1 THEN 1 ELSE 0)
         IN  str_times(" ", left) \o text \o str_times(" ", marg - left)

\* str.ljust(w)
str_ljust(text, w) == text \o str_times(" ", w - Len(text))

\* The end of the run of spaces, or of non-spaces, that starts at i.
RECURSIVE chunk_end(_, _)
chunk_end(text, i) ==
    IF i < Len(text) /\ ((SubSeq(text, i + 1, i + 1) = " ") <=> (SubSeq(text, i, i) = " "))
    THEN chunk_end(text, i + 1)
    ELSE i

\* TextWrapper._split: the words and the runs of spaces between them.
RECURSIVE split_chunks(_, _)
split_chunks(text, i) ==
    IF i > Len(text) THEN << >>
    ELSE LET j == chunk_end(text, i)
         IN  <<SubSeq(text, i, j)>> \o split_chunks(text, j + 1)

\* chunk.strip() == ''
is_blank(chunk) == chunk = "" \/ SubSeq(chunk, 1, 1) = " "

RECURSIVE join(_)
join(chunks) == IF chunks = << >> THEN "" ELSE Head(chunks) \o join(Tail(chunks))

\* The chunks that fit on the current line, and the chunks left.
RECURSIVE fill_line(_, _, _)
fill_line(chunks, cur_line, w) ==
    IF chunks # << >> /\ Len(join(cur_line)) + Len(Head(chunks)) <= w
    THEN fill_line(Tail(chunks), Append(cur_line, Head(chunks)), w)
    ELSE [cur_line |-> cur_line, chunks |-> chunks]

\* TextWrapper._handle_long_word: a chunk longer than the width is cut to
\* fill the line.
handle_long_word(f, w) ==
    IF f.chunks # << >> /\ Len(Head(f.chunks)) > w
    THEN LET space_left == w - Len(join(f.cur_line))
             chunk == Head(f.chunks)
         IN  [cur_line |-> Append(f.cur_line, SubSeq(chunk, 1, space_left)),
              chunks |-> <<SubSeq(chunk, space_left + 1, Len(chunk))>> \o Tail(f.chunks)]
    ELSE f

\* TextWrapper._wrap_chunks: line after line; a line starts with no space
\* (but the first) and ends with none.
RECURSIVE wrap_chunks(_, _, _)
wrap_chunks(chunks, w, lines) ==
    LET rest == IF chunks # << >> /\ is_blank(Head(chunks)) /\ lines # << >>
                THEN Tail(chunks) ELSE chunks
    IN  IF rest = << >> THEN lines
        ELSE LET f == handle_long_word(fill_line(rest, << >>, w), w)
                 cur_line == IF f.cur_line # << >> /\ is_blank(f.cur_line[Len(f.cur_line)])
                             THEN SubSeq(f.cur_line, 1, Len(f.cur_line) - 1)
                             ELSE f.cur_line
             IN  wrap_chunks(f.chunks, w,
                             IF cur_line # << >> THEN Append(lines, join(cur_line)) ELSE lines)

\* textwrap.wrap(text, width=w)
textwrap_wrap(text, w) == wrap_chunks(split_chunks(text, 1), w, << >>)

\* center_line (src/demo.py 680-681)
center_line(text) == "|" \o str_center(text, width - 2) \o "|"

\* wrap_block (src/demo.py 683-687)
wrap_block(text) ==
    LET lines == textwrap_wrap(text, width - 4)
        wrapped == IF lines = << >> THEN <<"">> ELSE lines
    IN  [k \in DOMAIN wrapped |-> "| " \o str_ljust(wrapped[k], width - 4) \o " |"]

\* wrap_lines (src/demo.py 689-699)
wrap_lines(prefix, content) ==
    LET lines == textwrap_wrap(content, width - Len(prefix) - 3)
        wrapped == IF lines = << >> THEN <<"">> ELSE lines
    IN  [k \in DOMAIN wrapped |->
           "| " \o (IF k = 1 THEN prefix ELSE str_times(" ", Len(prefix)))
                \o str_ljust(wrapped[k], width - Len(prefix) - 3) \o "|"]

\* str() of an int and of a float of a few decimals.
str_int(n) == text_of(int_repr(n))
str_float(m, e) == text_of(float_repr(OFloat(m, e)))

\* The text of the Summary line (src/demo.py 704-706).
summary_text(stats) ==
    "Total=" \o str_int(stats.total_tests) \o " Passed=" \o str_int(stats.passed)
      \o " Failed=" \o str_int(stats.failed) \o " Skipped=" \o str_int(stats.skipped)
      \o " PassRate="
      \o (IF stats.total_tests = 0 THEN "0" ELSE str_float(stats.pass_rate, 2)) \o "%"

\* The text of the Duration line (src/demo.py 707-708).
duration_text(stats) ==
    "Bundle execution " \o str_float(stats.execution_time_seconds, 2) \o "s / "
      \o str_int(stats.total_duration_ms) \o "ms cumulative"

\* The status word of a result (src/demo.py 712).
status_word(result) ==
    IF result.status = "passed" THEN "PASS"
    ELSE IF result.status = "failed" THEN "FAIL" ELSE "SKIP"

\* The separator of a result's heading (src/demo.py 713): a space, the
\* three characters the source file holds there (a mis-decoded bullet,
\* written here in ASCII) and a space.
heading_separator == " a@c "

\* result.get('url', 'n/a') (src/demo.py 715): to_dict's dict always holds
\* the key, so this is the value under it, None included.
result_get_url(result) == result.url

\* The lines a result adds (src/demo.py 711-716), when wrap accepts the url.
result_lines(result) ==
    <<center_line(status_word(result) \o heading_separator \o result.name)>>
      \o wrap_lines("Detail: ", result.details)
      \o wrap_lines("Link: ", result_get_url(result))
      \o <<border>>

RECURSIVE results_lines(_, _)
results_lines(rs, k) ==
    IF k > Len(rs) THEN << >> ELSE result_lines(rs[k]) \o results_lines(rs, k + 1)

Returned(fn, value) == [computed |-> TRUE, fn |-> fn, raised |-> FALSE, value |-> value]

Raised(fn, error) == [computed |-> TRUE, fn |-> fn, raised |-> TRUE, error |-> error]

\* generate_canvas_report (src/demo.py 674-718): the lines that are joined
\* with line breaks, or the AttributeError textwrap.wrap raises when it is
\* given None.
generate_canvas_report(test_results) ==
    LET bundle_info == test_results.bundle_info
        stats == test_results.statistics
    IN  IF \E k \in DOMAIN test_results.results : result_get_url(test_results.results[k]) = None
        THEN Raised("generate_canvas_report", "AttributeError")
        ELSE Returned("generate_canvas_report",
                      <<border, center_line("Test Canvas: " \o text_of(bundle_info.name))>>
                        \o wrap_block(bundle_info.description)
                        \o <<border>>
                        \o wrap_lines("Summary: ", summary_text(stats))
                        \o wrap_lines("Duration: ", duration_text(stats))
                        \o <<border>>
                        \o results_lines(test_results.results, 1))

(***************************************************************************)
(* Direct calls of the report generators on the outcomes run_bundle can    *)
(* return: for each bundle of the registry and each config it accepts,     *)
(* every list of results its executor can produce (returned results and    *)
(* the results built from raised errors) with each measured time.          *)
(***************************************************************************)
\* A bundle name of 56 characters.
LongSuite ==
    <<"N", "i", "g", "h", "t", "l", "y", " ", "R", "e", "g", "r", "e", "s",
      "s", "i", "o", "n", " ", "S", "u", "i", "t", "e", " ", "F", "o", "r",
      " ", "T", "h", "e", " ", "C", "u", "s", "t", "o", "m", "e", "r", " ",
      "B", "i", "l", "l", "i", "n", "g", " ", "P", "o", "r", "t", "a", "l">>

ReportBundles ==
    {EcommerceBundle, FormValidationBundle, APIHealthBundle} \cup HostBundles
      \cup {EmptyBundle(LongSuite)}

\* What one pass of execute_bundle's loop can append for a case.
case_results(b, test_case, cfg) ==
    execute_test_returns(b, test_case, cfg)
      \cup {error_result(test_case, e) : e \in execute_test_raises(b)}

result_lists(b, cfg) ==
    LET test_cases == get_test_cases(b)
    IN  {rs \in [DOMAIN test_cases -> UNION {case_results(b, test_cases[k], cfg) : k \in DOMAIN test_cases}] :
           \A k \in DOMAIN test_cases : rs[k] \in case_results(b, test_cases[k], cfg)}

ReportOutcomes ==
    UNION { { run_outcome(b, cfg, rs, t) : rs \in result_lists(b, cfg), t \in ExecutionTimes } :
            <<b, cfg>> \in {bc \in ReportBundles \X ConfigInputs : validate_config(bc[1], bc[2]).ok} }

ReportInit ==
    /\ InitState
    /\ callers = {}
    /\ stat_args = NoArgs /\ stat_ret = NoRet
    /\ report_args \in ReportOutcomes
    /\ report_ret = NoRet

GenerateJson ==
    /\ report_ret = NoRet
    /\ report_ret' = Returned("generate_json_report", generate_json_report(report_args))
    /\ UNCHANGED <<stat_args, stat_ret, report_args, registry_vars, callers, run_vars>>

GenerateCanvas ==
    /\ report_ret = NoRet
    /\ report_ret' = generate_canvas_report(report_args)
    /\ UNCHANGED <<stat_args, stat_ret, report_args, registry_vars, callers, run_vars>>

ReportNext == GenerateJson \/ GenerateCanvas

ReportSpec == ReportInit /\ [][ReportNext]_vars

\* C12: the JSON report of an outcome run_bundle can return, parsed back,
\* holds a bundle_info, a statistics and a results equal field for field to
\* those of the outcome in memory: an absent url or error_message comes back
\* as None and each status as its lower-case name.
C12_JsonRoundTrip ==
    (report_ret # NoRet /\ report_ret.fn = "generate_json_report") =>
        LET memory == outcome_object(report_args)
            parsed == json_loads(report_ret.value)
        IN  /\ ~report_ret.raised
            /\ parsed.t = "dict"
            /\ \A key \in {"bundle_info", "statistics", "results"} :
                 item(parsed, key) = item(memory, key)
            /\ \A k \in DOMAIN report_args.results :
                 LET res == item(parsed, "results").items[k]
                 IN  /\ item(res, "status") = OStr(report_args.results[k].status)
                     /\ report_args.results[k].status \in TestStatus
                     /\ (report_args.results[k].url = None) <=> (item(res, "url") = ONone)
                     /\ (report_args.results[k].error_message = None)
                          <=> (item(res, "error_message") = ONone)

\* A report was rendered and parsed for an outcome with a result that has no
\* url, a result that has no error_message and a result with an error
\* message, and a pass rate with decimals.
C12_Witness ==
    /\ report_ret # NoRet
    /\ report_ret.fn = "generate_json_report"
    /\ \E k \in DOMAIN report_args.results : report_args.results[k].url = None
    /\ \E k \in DOMAIN report_args.results :
         /\ report_args.results[k].error_message # None
         /\ item(item(json_loads(report_ret.value), "results").items[k], "error_message")
              = OStr(report_args.results[k].error_message)
    /\ \E k \in DOMAIN report_args.results : report_args.results[k].error_message = None
    /\ item(item(json_loads(report_ret.value), "statistics"), "pass_rate") = OFloat(5000, 2)


\* The canvas report of the outcome was rendered.
CanvasRendered ==
    /\ report_ret # NoRet
    /\ report_ret.fn = "generate_canvas_report"
    /\ ~report_ret.raised

\* C13: every line of a canvas rendering is exactly 70 characters long, and
\* its first and last lines are the border, whatever the lengths of the
\* bundle name, the result names, the description and the details.
C13_EveryCanvasLineIs70Wide ==
    CanvasRendered =>
        LET canvas == report_ret.value
        IN  /\ \A k \in DOMAIN canvas : Len(canvas[k]) = 70
            /\ canvas[1] = "+" \o str_times("-", 68) \o "+"
            /\ canvas[Len(canvas)] = canvas[1]

\* The Link line of a result: the prefix and the url, or n/a without a url.
LinkLines(result) ==
    wrap_lines("Link: ", IF result.url = None THEN "n/a" ELSE result.url)

\* C14: the canvas renderer succeeds on every outcome run_bundle can return,
\* and its lines hold, for each result, the Link line of the result's url,
\* or of n/a when the result has no url.
C14_CanvasRendersEveryOutcome ==
    (report_ret # NoRet /\ report_ret.fn = "generate_canvas_report") =>
        /\ ~report_ret.raised
        /\ \A k \in DOMAIN report_args.results :
             \E i \in DOMAIN report_ret.value :
                 report_ret.value[i] = LinkLines(report_args.results[k])[1]


(***************************************************************************)
(* Direct calls of validate_config (src/demo.py 147-155) on each bundle    *)
(* with config dicts that lack keys or hold truthy and falsy values of     *)
(* every type under them.                                                  *)
(***************************************************************************)
FieldValues ==
    {Missing, PyNone, PyStr(""), PyStr("https://demo-shop.example.com"),
     PyInt("0"), PyInt("3"), PyBool("False"), PyBool("True")}

ValidateConfigs ==
    {Config(u, f, n, t) : u \in FieldValues, f \in {Missing, PyStr(""), PyStr("/signup")},
                          n \in FieldValues, t \in FieldValues}

ValidateInit ==
    /\ InitState
    /\ callers = {}
    /\ stat_args = NoArgs /\ stat_ret = NoRet
    /\ report_args \in [bundle : ReportBundles, config : ValidateConfigs]
    /\ report_ret = NoRet

ValidateConfig ==
    /\ report_ret = NoRet
    /\ report_ret' = Returned("validate_config",
                              validate_config(report_args.bundle, report_args.config))
    /\ UNCHANGED <<stat_args, stat_ret, report_args, registry_vars, callers, run_vars>>

ValidateSpec == ValidateInit /\ [][ValidateConfig]_vars

\* The config lacks the key, or holds the empty string, 0, False or None
\* under it.
AbsentOrFalsy(cfg, field_name) ==
    \/ field_name \notin DOMAIN cfg
    \/ cfg[field_name] \in {Missing, PyStr(""), PyInt("0"), PyBool("False"), PyNone}

\* The positions of the schema's required fields the config does not fill.
Unfilled(schema, cfg) ==
    {k \in DOMAIN schema : schema[k].required /\ AbsentOrFalsy(cfg, schema[k].field_name)}

\* C16: validate_config returns (False, "Required field '<label>' is
\* missing") exactly when a required field of the schema is absent from the
\* config or holds a falsy value, with the label of the first such field in
\* schema order; otherwise it returns (True, None), whatever the
\* non-required fields hold and whatever the type of a value is.
C16_RejectsExactlyUnfilledRequiredField ==
    (report_ret # NoRet /\ report_ret.fn = "validate_config") =>
        LET schema == get_config_schema(report_args.bundle)
            unfilled == Unfilled(schema, report_args.config)
        IN  /\ ~report_ret.raised
            /\ (unfilled = {}) <=> report_ret.value.ok
            /\ report_ret.value.ok => report_ret.value.msg = None
            /\ unfilled # {} =>
                 LET first == CHOOSE k \in unfilled : \A j \in unfilled : k <= j
                 IN  report_ret.value.msg
                       = "Required field '" \o schema[first].label \o "' is missing"

\* validate_config was called on a bundle whose schema starts with a
\* non-required field the config lacks, with the first required field filled
\* and the second holding 0: the second one's label is reported.
C16_Witness ==
    /\ report_ret # NoRet
    /\ report_ret.fn = "validate_config"
    /\ report_args.bundle.cls = "PluginBundle"
    /\ report_args.config.username = PyStr("https://demo-shop.example.com")
    /\ report_args.config.retries = PyInt("0")
    /\ report_ret.value = [ok |-> FALSE, msg |-> "Required field 'Retries' is missing"]


(***************************************************************************)
(* Two callers on one runner: their run_bundle coroutines interleave at    *)
(* the awaits of execute_test (src/demo.py 131, 559).  Each caller passes  *)
(* its own config, so the url of a result tells whose invocation built it; *)
(* both run shipped bundles, the same one or different ones.               *)
(***************************************************************************)
ConcIds == {bundle_id_of(EcommerceBundle.name), bundle_id_of(FormValidationBundle.name)}

ConcConfig(r) ==
    IF r = 1 THEN Config(PyStr("https://demo-shop.example.com"), Missing, Missing, Missing)
    ELSE Config(PyStr("https://staging-shop.example.com"), PyStr("/signup"), Missing, Missing)

ConcInit ==
    /\ InitState
    /\ callers = Runs
    /\ stat_args = NoArgs /\ stat_ret = NoRet
    /\ report_args = NoArgs /\ report_ret = NoRet

\* The steps of run_bundle for a shipped bundle, whose executor raises
\* nothing.
ConcStep(r) ==
    \/ Resolve(r)
    \/ Validate(r)
    \/ StartExecute(r)
    \/ Invoke(r)
    \/ ExecuteReturns(r)
    \/ Finish(r)

ConcNext ==
    \/ \E r \in Runs, id \in ConcIds : Call(r, id, ConcConfig(r))
    \/ \E r \in Runs : ConcStep(r)
    \/ \E r \in Runs : Discard(r)

ConcSpec == ConcInit /\ [][ConcNext]_vars

\* What belongs to the run of caller r.
frame(r) ==
    <<pc[r], bundle_id[r], config[r], bundle[r], validated[r], results[r], idx[r],
      calls[r], waited[r], outcome[r], raised[r]>>

\* In every state: the results a run holds, and those of the outcome it
\* returned, are one per invocation it made and completed, in its bundle's
\* case order, each built by the invocation for that case with the run's own
\* config; the statistics of the outcome count those results.
C15_State ==
    \A r \in Runs :
       /\ pc[r] \in Executing \cup {"returned"} =>
            /\ Len(results[r]) = Cardinality({k \in DOMAIN calls[r] : calls[r][k].ended # "pending"})
            /\ \A k \in DOMAIN results[r] :
                  /\ calls[r][k].case = k
                  /\ results[r][k] \in execute_test_returns(bundle[r], cases_of(r)[k], config[r])
       /\ pc[r] = "returned" =>
            /\ outcome[r].results = [k \in DOMAIN results[r] |-> to_dict(results[r][k])]
            /\ Len(outcome[r].results) = Len(cases_of(r))
            /\ outcome[r].statistics.total_tests = Len(outcome[r].results)
            /\ outcome[r].statistics.passed
                 = Cardinality(WithStatus(outcome[r].results, {PASSED}))
            /\ outcome[r].statistics.failed
                 = Cardinality(WithStatus(outcome[r].results, {FAILED}))
            /\ outcome[r].statistics.total_duration_ms
                 = DurationOfFirst(outcome[r].results, Len(outcome[r].results))

\* In every step: at most one run moves, and what the other run holds,
\* the outcome it returned included, stays as it is; a returned outcome
\* changes only by being dropped by its caller.
C15_Step ==
    \A r \in Runs :
       /\ frame(r)' # frame(r) => \A q \in Runs \ {r} : frame(q)' = frame(q)
       /\ (pc[r] = "returned" /\ pc'[r] = "returned") => outcome'[r] = outcome[r]

\* C15: two interleaved run_bundle invocations on one registry share no
\* mutable state: each returns the results of its own invocations in case
\* order with statistics computed from them, and a returned outcome does
\* not change afterwards.
C15_InterleavedRunsAreIndependent == []C15_State /\ [][C15_Step]_vars

\* Both callers ran the same bundle and hold their outcomes, whose results
\* differ in status and carry each caller's own url.
C15_Witness ==
    /\ pc[1] = "returned" /\ pc[2] = "returned"
    /\ bundle[1] = EcommerceBundle /\ bundle[2] = EcommerceBundle
    /\ outcome[1].statistics.passed = MaxCases
    /\ outcome[2].statistics.failed = MaxCases
    /\ outcome[1].results[1].url = "https://demo-shop.example.com/" \o cases_of(1)[1].test_function
    /\ outcome[2].results[1].url = "https://staging-shop.example.com/" \o cases_of(2)[1].test_function

\* In every state: the config of a returned outcome is the config of the
\* call.
C17_State ==
    \A r \in Runs : pc[r] = "returned" => outcome[r].config = config[r]

\* In every step: a step of a run (from its call to its return or failure)
\* leaves the registry's mapping as it is, and the config of a call stays the
\* one the caller passed until the caller drops it.
C17_Step ==
    \A r \in Runs :
       /\ (pc[r] # "idle" /\ frame(r)' # frame(r)) => bundles' = bundles
       /\ (pc[r] # "idle" /\ pc'[r] # "idle") => config'[r] = config[r]

\* C17: a run, whether it returns or fails with BundleNotFound or
\* InvalidConfiguration, changes neither the registry's mapping nor the
\* config the caller passed, and the config of a returned outcome equals
\* that config.
C17_RunLeavesRegistryAndConfig == []C17_State /\ [][C17_Step]_vars

\* A run of a bundle the host registered has returned an outcome holding the
\* caller's config.
C17_Witness ==
    \E r \in Runs :
       /\ pc[r] = "returned"
       /\ Len(bundles) > 3
       /\ bundle[r].cls = "PluginBundle"
       /\ config[r].username = PyStr("alice")
       /\ outcome[r].config = config[r]

====
